---------------------------- MODULE Spec2Model ----------------------------
(***************************************************************************)
(* A model of apgujeong_rank_app.py, a Streamlit script: every user        *)
(* interaction reruns the script from the top against the session state.   *)
(*                                                                         *)
(* Strings are sequences of one-character strings, so that the character   *)
(* filters, the digit slicing and the number parsing are computed and not  *)
(* assumed.  A float is an integer number of ticks, one decimal digit      *)
(* finer than the rank key keeps (1 tick = 1e-7); what the binary          *)
(* representation decides below that resolution (the direction of a        *)
(* rounding tie, a difference equal to the tolerance) is tabulated for the *)
(* values of the model from IEEE-754 double arithmetic.                    *)
(***************************************************************************)
EXTENDS Integers, Sequences, FiniteSets, TLC

VARIABLES
    sheet,      \* the data source: raw rows, editable behind the app's back
    df,         \* the table of the last script run (load_data of the source)
    ui,         \* widget values: ui_zone, ui_dong, ui_ho
    session,    \* st.session_state: confirmed and the stored triple
    out,        \* what the last script run computed and rendered
    arg,        \* input of a helper function applied on its own
    res         \* its result

vars == <<sheet, df, ui, session, out, arg, res>>

-----------------------------------------------------------------------------
(* Generic sequence helpers                                                *)

RECURSIVE SumSeq(_)
SumSeq(s) == IF s = <<>> THEN 0 ELSE Head(s) + SumSeq(Tail(s))

RECURSIVE Pow10(_)
Pow10(n) == IF n = 0 THEN 1 ELSE 10 * Pow10(n - 1)

Abs(x) == IF x < 0 THEN -x ELSE x

Range(s) == {s[i] : i \in 1..Len(s)}

\* All sequences over S of length at most n.
RECURSIVE SeqsUpTo(_, _)
SeqsUpTo(S, n) ==
    IF n = 0 THEN {<<>>}
    ELSE LET shorter == SeqsUpTo(S, n - 1)
         IN  shorter \cup {Append(s, x) : s \in {t \in shorter : Len(t) = n - 1}, x \in S}

\* Lexicographic order of integer sequences (a proper prefix comes first).
RECURSIVE LexLess(_, _)
LexLess(a, b) ==
    IF b = <<>> THEN FALSE
    ELSE IF a = <<>> THEN TRUE
    ELSE IF Head(a) # Head(b) THEN Head(a) < Head(b)
    ELSE LexLess(Tail(a), Tail(b))

\* A sort key is a sequence of components, each an integer sequence; keys
\* compare component by component.
RECURSIVE KeyLess(_, _)
KeyLess(k1, k2) ==
    IF k1 = <<>> THEN FALSE
    ELSE IF Head(k1) # Head(k2) THEN LexLess(Head(k1), Head(k2))
    ELSE KeyLess(Tail(k1), Tail(k2))

\* Positions 1..Len(keys) in ascending key order, equal keys in their
\* original order (a stable sort).
RECURSIVE InsertPos(_, _, _)
InsertPos(order, i, keys) ==
    IF order = <<>> THEN <<i>>
    ELSE IF KeyLess(keys[i], keys[Head(order)]) THEN <<i>> \o order
    ELSE <<Head(order)>> \o InsertPos(Tail(order), i, keys)

RECURSIVE SortedPos(_, _)
SortedPos(n, keys) ==
    IF n = 0 THEN <<>> ELSE InsertPos(SortedPos(n - 1, keys), n, keys)

StableSortBy(s, keys) ==
    LET order == SortedPos(Len(s), keys)
    IN  [j \in 1..Len(s) |-> s[order[j]]]

-----------------------------------------------------------------------------
(* Optional values: NaN / None                                             *)

NaN == [ok |-> FALSE, v |-> 0]
Num(x) == [ok |-> TRUE, v |-> x]
notna(x) == x.ok
isna(x) == ~x.ok

-----------------------------------------------------------------------------
(* Characters.  A character outside ASCII is written as a token: "sup2" is  *)
(* the superscript two, "nbsp" the non-breaking space U+00A0, "eok" and     *)
(* "dong" the Hangul syllables of the currency word and of the building     *)
(* suffix, "backtick" and "quote" the two quote characters.                 *)

DigitChars == <<"0", "1", "2", "3", "4", "5", "6", "7", "8", "9">>
AsciiDigits == {"0", "1", "2", "3", "4", "5", "6", "7", "8", "9"}
DigitValues == [c \in AsciiDigits |-> (CHOOSE i \in 1..10 : DigitChars[i] = c) - 1]
DigitVal(c) == DigitValues[c]

\* Characters for which str.isdigit() is true but int() fails.
SuperDigits == {"sup2"}

\* Code points, for the string order of sorted() and groupby().
CodePoints ==
    (" " :> 32) @@ ("quote" :> 39) @@ ("," :> 44) @@ ("-" :> 45) @@ ("." :> 46) @@
    ("A" :> 65) @@ ("B" :> 66) @@ ("backtick" :> 96) @@ ("x" :> 120) @@
    ("nbsp" :> 160) @@ ("sup2" :> 178) @@ ("dong" :> 46041) @@ ("eok" :> 50613) @@
    [c \in AsciiDigits |-> 48 + DigitValues[c]]
ord(c) == CodePoints[c]

\* A string as the integer sequence of its code points: Python's string order.
codes(s) == [i \in 1..Len(s) |-> ord(s[i])]
StrLess(a, b) == LexLess(codes(a), codes(b))

-----------------------------------------------------------------------------
(* Floats as ticks                                                         *)

ROUND_DECIMALS == 6

\* One decimal digit below the rank key: 1 tick = 1e-7.
TickScale == Pow10(ROUND_DECIMALS + 1)

\* v rounded to a multiple of unit; tieUp decides an exact half.
RoundTicks(v, unit, tieUp) ==
    LET q == v \div unit
        r == v % unit
    IN  IF 2 * r < unit THEN q * unit
        ELSE IF 2 * r > unit THEN (q + 1) * unit
        ELSE IF tieUp THEN (q + 1) * unit
        ELSE q * unit

\* A decimal ...5 in the seventh place is no double: the nearest double lies
\* above or below it.  round(x, 6) rounds the double's exact value, so it goes
\* up exactly when the double lies above:
\*   1.0000005 -> 1.000001   2.0000005 -> 2.000001
\*   1.0000015 -> 1.000001   1.0000025 -> 1.000002
PyTieUp == {10000005, 20000005}

\* Series.round(6) is numpy's rint(x * 1e6) / 1e6: the product is rounded to a
\* double first, and rint takes an exact half to the even neighbour:
\*   1.0000005 * 1e6 = 1000000.5000000001 -> 1.000001
\*   1.0000015 * 1e6 = 1000001.5          -> 1.000002
\*   1.0000025 * 1e6 = 1000002.4999999999 -> 1.000002
\*   2.0000005 * 1e6 = 2000000.5          -> 2.0
NpTieUp == {10000005, 10000015}

\* The two tables cover every tie among the valuations of the data below.

\* builtin round(x, ndigits) of a float.
PyRound(v, ndigits) ==
    RoundTicks(v, TickScale \div Pow10(ndigits), v \in PyTieUp)

\* pandas Series.round(decimals) of a float64 column.
SeriesRound(v, decimals) ==
    RoundTicks(v, TickScale \div Pow10(decimals), v \in NpTieUp)

\* np.isclose(a, b, rtol=0, atol=1e-6): abs(a - b) <= 1e-6 in doubles.  A
\* decimal difference of exactly 1e-6 comes out just above or just below:
\*   abs(2.000001 - 2.0) = 1.000000000139778e-06  (not close)
\*   abs(1.000001 - 1.0) = 9.999999999177334e-07  (close)
CloseAtAtol == {{10000010, 10000000}}
isclose(a, b) ==
    LET atol == TickScale \div Pow10(6)
    IN  \/ Abs(a - b) < atol
        \/ Abs(a - b) = atol /\ {a, b} \in CloseAtAtol

-----------------------------------------------------------------------------
(* pd.to_numeric(..., errors="coerce") of one cell                         *)

\* A cell is None (an empty cell) or a string.
None == [ok |-> FALSE, s |-> <<>>]
Str(s) == [ok |-> TRUE, s |-> s]

RECURSIVE DigitsValue(_)
DigitsValue(ds) ==
    IF ds = <<>> THEN 0
    ELSE 10 * DigitsValue(SubSeq(ds, 1, Len(ds) - 1)) + DigitVal(ds[Len(ds)])

\* The fraction digits fs as ticks, the first worth unit ticks (digits past
\* the tick resolution are below what the model distinguishes).
RECURSIVE FracTicks(_, _)
FracTicks(fs, unit) ==
    IF fs = <<>> \/ unit = 0 THEN 0
    ELSE DigitVal(Head(fs)) * unit + FracTicks(Tail(fs), unit \div 10)

\* An unsigned decimal literal: digits, at most one dot, at least one digit.
ParseUnsigned(s) ==
    LET dots == {i \in 1..Len(s) : s[i] = "."}
        ip == IF dots = {} THEN s ELSE SubSeq(s, 1, (CHOOSE i \in dots : TRUE) - 1)
        fp == IF dots = {} THEN <<>> ELSE SubSeq(s, (CHOOSE i \in dots : TRUE) + 1, Len(s))
    IN  IF \/ Cardinality(dots) > 1
           \/ \E i \in 1..Len(s) : s[i] \notin AsciiDigits \cup {"."}
           \/ Len(ip) + Len(fp) = 0
        THEN NaN
        ELSE Num(DigitsValue(ip) * TickScale + FracTicks(fp, TickScale \div 10))

\* A string parses when it is an optionally signed decimal literal.
ParseFloat(s) ==
    IF s # <<>> /\ Head(s) = "-"
    THEN LET u == ParseUnsigned(Tail(s)) IN IF u.ok THEN Num(-u.v) ELSE NaN
    ELSE ParseUnsigned(s)

to_numeric(cell) == IF cell.ok THEN ParseFloat(cell.s) ELSE NaN

-----------------------------------------------------------------------------
(* clean_price                                                             *)

Whitespace == {" ", "nbsp"}

RECURSIVE lstrip(_)
lstrip(s) == IF s # <<>> /\ Head(s) \in Whitespace THEN lstrip(Tail(s)) ELSE s
RECURSIVE rstrip(_)
rstrip(s) ==
    IF s # <<>> /\ s[Len(s)] \in Whitespace THEN rstrip(SubSeq(s, 1, Len(s) - 1)) ELSE s
strip(s) == rstrip(lstrip(s))

\* str.replace(token, "") for a one-character token.
replace(s, token) == SelectSeq(s, LAMBDA c : c # token)

\* astype(str): an empty cell becomes the text "nan".
astype_str(cell) == IF cell.ok THEN cell.s ELSE <<"n", "a", "n">>

KeepPriceChar(c) == c \in AsciiDigits \cup {".", "-"}

clean_price(cell) ==
    LET s0 == astype_str(cell)
        s1 == strip(replace(replace(replace(replace(replace(s0, "nbsp"), ","), "backtick"), "quote"), "eok"))
        s2 == SelectSeq(s1, KeepPriceChar)
    IN  ParseFloat(s2)

\* public / 0.7, to the nearest tick (10 * v / 7, split so that the product
\* stays small).
DivideByRatio(v) ==
    LET m == Abs(v)
        q == 10 * (m \div 7) + (20 * (m % 7) + 7) \div 14
    IN  IF v >= 0 THEN q ELSE -q

\* The derived valuation column of one row: derived.where(~derived.isna(), fallback).
derived_valuation(public_cell, appraisal_cell) ==
    LET public == to_numeric(public_cell)
        fallback == clean_price(appraisal_cell)
    IN  IF public.ok THEN Num(DivideByRatio(public.v)) ELSE fallback

-----------------------------------------------------------------------------
(* extract_floor                                                           *)

isdigit(c) == c \in AsciiDigits \cup SuperDigits

Raised == [st |-> "raise", v |-> 0]
FloorNaN == [st |-> "nan", v |-> 0]
Floor(n) == [st |-> "ok", v |-> n]

\* float(int(ds)): int() raises ValueError on a digit it cannot read.
float_int(ds) ==
    IF \E i \in 1..Len(ds) : ds[i] \notin AsciiDigits THEN Raised
    ELSE Floor(DigitsValue(ds))

extract_floor(ho) ==
    LET digits == SelectSeq(ho, isdigit)
    IN  IF digits = <<>> THEN FloorNaN
        ELSE IF Len(digits) >= 3
        THEN (IF SubSeq(digits, 1, Len(digits) - 2) # <<>>
              THEN float_int(SubSeq(digits, 1, Len(digits) - 2))
              ELSE FloorNaN)
        ELSE IF Len(digits) = 2 THEN float_int(<<digits[1]>>)
        ELSE float_int(digits)

-----------------------------------------------------------------------------
(* contiguous_ranges                                                       *)

\* The loop body: acc is (ranges, start, prev), start = <<>> standing for None.
ranges_step(acc, x) ==
    IF acc.start = <<>> THEN [acc EXCEPT !.start = <<x>>, !.prev = <<x>>]
    ELSE IF x = acc.prev[1] + 1 THEN [acc EXCEPT !.prev = <<x>>]
    ELSE [ranges |-> Append(acc.ranges, <<acc.start[1], acc.prev[1]>>),
          start |-> <<x>>, prev |-> <<x>>]

RECURSIVE ranges_loop(_, _)
ranges_loop(acc, xs) ==
    IF xs = <<>> THEN acc ELSE ranges_loop(ranges_step(acc, Head(xs)), Tail(xs))

contiguous_ranges(sorted_ints) ==
    LET acc == ranges_loop([ranges |-> <<>>, start |-> <<>>, prev |-> <<>>], sorted_ints)
    IN  IF acc.start # <<>>
        THEN Append(acc.ranges, <<acc.start[1], acc.prev[1]>>)
        ELSE acc.ranges

\* sorted(set(xs)) of a sequence of integers.
RECURSIVE SortedSet(_)
SortedSet(S) ==
    IF S = {} THEN <<>>
    ELSE LET m == CHOOSE x \in S : \A y \in S : x <= y
         IN  <<m>> \o SortedSet(S \ {m})

\* The call site without its sorted(set(...)): the floors as they come.
unsorted_floors(xs) == xs

sorted_set(xs) == SortedSet(Range(xs))

-----------------------------------------------------------------------------
(* The table and its loading                                               *)

\* The rows of s at the positions in I, in order.
RECURSIVE Pick(_, _, _)
Pick(s, I, i) ==
    IF i > Len(s) THEN <<>>
    ELSE (IF i \in I THEN <<s[i]>> ELSE <<>>) \o Pick(s, I, i + 1)

Rows(s, I) == Pick(s, I, 1)

\* One row of the loaded table: identifiers stripped, derived valuation added.
load_row(r) ==
    [zone |-> strip(r.zone), dong |-> strip(r.dong), ho |-> strip(r.ho),
     public |-> r.public, appraisal |-> r.appraisal,
     price_clean |-> derived_valuation(r.public, r.appraisal)]

load_data(source) == [i \in 1..Len(source) |-> load_row(source[i])]

-----------------------------------------------------------------------------
(* Selection widgets                                                       *)

Z_SENTINEL == <<"--zone--">>
D_SENTINEL == <<"--dong--">>
H_SENTINEL == <<"--ho--">>

zone_options(d) == {Z_SENTINEL} \cup {d[i].zone : i \in 1..Len(d)}
dong_options(d, zone_choice) ==
    {D_SENTINEL} \cup {d[i].dong : i \in {j \in 1..Len(d) : d[j].zone = zone_choice}}
ho_options(d, zone_choice, dong_choice) ==
    {H_SENTINEL} \cup
    {d[i].ho : i \in {j \in 1..Len(d) : d[j].zone = zone_choice /\ d[j].dong = dong_choice}}

\* The three select boxes of one run, top to bottom.  st.selectbox returns the
\* keyed widget value while it is one of the options, the first option
\* (index=0, the sentinel) otherwise.
render_choices(d, w) ==
    LET zone_choice == IF w.zone \in zone_options(d) THEN w.zone ELSE Z_SENTINEL
        dong_choice == IF zone_choice # Z_SENTINEL /\ w.dong \in dong_options(d, zone_choice)
                       THEN w.dong ELSE D_SENTINEL
        ho_choice == IF dong_choice # D_SENTINEL /\ w.ho \in ho_options(d, zone_choice, dong_choice)
                     THEN w.ho ELSE H_SENTINEL
    IN  [zone |-> zone_choice, dong |-> dong_choice, ho |-> ho_choice]

valid_pick(w) == w.zone # Z_SENTINEL /\ w.dong # D_SENTINEL /\ w.ho # H_SENTINEL

-----------------------------------------------------------------------------
(* Section 4: validity and ranks                                           *)

zone_df(d, zone) == Rows(d, {i \in 1..Len(d) : d[i].zone = zone})

\* The zone's rows with no filter on the valuation.
unfiltered_rows(zdf) == zdf

valid_rows(zdf) == Rows(zdf, {i \in 1..Len(zdf) : notna(zdf[i].price_clean)})

bad_rows(zdf) == Rows(zdf, {i \in 1..Len(zdf) : isna(zdf[i].price_clean)})

price_key(price) == SeriesRound(price, ROUND_DECIMALS)

\* Series.rank(method="dense", ascending=False): one more than the number of
\* distinct larger keys.
rank_dense_desc(keys) ==
    [i \in 1..Len(keys) |->
        1 + Cardinality({keys[j] : j \in {k \in 1..Len(keys) : keys[k] > keys[i]}})]

\* Series.rank(method="min", ascending=False): order the keys from the largest
\* down; a row's rank is the first place its key takes in that order.
rank_min_desc(keys) ==
    LET sorted == StableSortBy(keys, [i \in 1..Len(keys) |-> << <<-keys[i]>> >>])
    IN  [i \in 1..Len(keys) |->
            CHOOSE p \in 1..Len(keys) :
                /\ sorted[p] = keys[i]
                /\ \A q \in 1..(p - 1) : sorted[q] # keys[i]]

\* groupby(key).transform("size")
group_size(keys) ==
    [i \in 1..Len(keys) |-> Cardinality({j \in 1..Len(keys) : keys[j] = keys[i]})]

\* work: the zone's rows with a valuation, keyed, ranked, counted and sorted.
ranked(zdf) ==
    LET w == valid_rows(zdf)
        keys == [i \in 1..Len(w) |-> price_key(w[i].price_clean.v)]
        ranks == rank_min_desc(keys)
        sizes == group_size(keys)
        rows == [i \in 1..Len(w) |->
                    [zone |-> w[i].zone, dong |-> w[i].dong, ho |-> w[i].ho,
                     price_clean |-> w[i].price_clean.v, price_key |-> keys[i],
                     rank |-> ranks[i], tied |-> sizes[i]]]
    IN  StableSortBy(rows, [i \in 1..Len(rows) |->
                                << <<-rows[i].price_key>>, codes(rows[i].dong), codes(rows[i].ho) >>])

\* The selected unit's key: builtin round of its valuation.
sel_key_of(sel_price) ==
    IF notna(sel_price) THEN Num(PyRound(sel_price.v, ROUND_DECIMALS)) ELSE NaN

MinOf(S) == CHOOSE x \in S : \A y \in S : x <= y
MaxOf(S) == CHOOSE x \in S : \A y \in S : x >= y

\* sel_rank (None when no row of work carries the key) and sel_tied.
sel_rank_of(work, sel_key) ==
    LET subset == {i \in 1..Len(work) : work[i].price_key = sel_key.v}
    IN  IF notna(sel_key) /\ subset # {} THEN Num(MinOf({work[i].rank : i \in subset})) ELSE NaN

sel_tied_of(work, sel_key) ==
    LET subset == {i \in 1..Len(work) : work[i].price_key = sel_key.v}
    IN  IF notna(sel_key) /\ subset # {} THEN MaxOf({work[i].tied : i \in subset}) ELSE 0

-----------------------------------------------------------------------------
(* Labels and sort numbers of the summaries                                *)

\* re.search(r"\d+", s): the first run of digits as an integer, 10**9 if none.
RECURSIVE LeadingDigits(_)
LeadingDigits(s) ==
    IF s = <<>> \/ Head(s) \notin AsciiDigits THEN <<>>
    ELSE <<Head(s)>> \o LeadingDigits(Tail(s))

RECURSIVE first_number(_)
first_number(s) ==
    IF s = <<>> THEN Pow10(9)
    ELSE IF Head(s) \in AsciiDigits THEN DigitsValue(LeadingDigits(s))
    ELSE first_number(Tail(s))

dong_label(d) == IF "dong" \in Range(d) THEN d ELSE d \o <<"dong">>

\* groupby: the distinct key tuples (tuples of strings) in ascending order.
RECURSIVE SortedTuples(_)
SortedTuples(S) ==
    IF S = {} THEN <<>>
    ELSE LET key(t) == [i \in 1..Len(t) |-> codes(t[i])]
             m == CHOOSE x \in S : \A y \in S : ~KeyLess(key(y), key(x))
         IN  <<m>> \o SortedTuples(S \ {m})

\* The floors of rows g (all with a floor) compressed to ranges.
floor_ranges(g) == contiguous_ranges(sorted_set([i \in 1..Len(g) |-> g[i].floor.v]))

\* The rows with no filter on the floor.
any_floor(rows) == rows

with_floor(rows) == Rows(rows, {i \in 1..Len(rows) : rows[i].floor.st = "ok"})

-----------------------------------------------------------------------------
(* Section 7: the co-rank summary                                          *)

NoSummary(status) == [status |-> status, grp |-> <<>>, no_floor |-> 0, rows |-> <<>>]

corank_rows(grp) ==
    LET kept == with_floor(grp)
        names == SortedTuples({<<kept[i].dong>> : i \in 1..Len(kept)})
        rows == [k \in 1..Len(names) |->
                    LET g == Rows(kept, {i \in 1..Len(kept) : kept[i].dong = names[k][1]})
                    IN  [dong |-> dong_label(names[k][1]),
                         ranges |-> floor_ranges(g),
                         count |-> Len(g)]]
    IN  StableSortBy(rows, [k \in 1..Len(rows) |-> << <<first_number(rows[k].dong)>> >>])

corank_summary(work, sel_key, sel_rank) ==
    IF isna(sel_rank) \/ isna(sel_key) THEN NoSummary("not_computable")
    ELSE LET tmp == [i \in 1..Len(work) |->
                        [zone |-> work[i].zone, dong |-> work[i].dong, ho |-> work[i].ho,
                         price_key |-> work[i].price_key, rank |-> work[i].rank,
                         tied |-> work[i].tied, floor |-> extract_floor(work[i].ho)]]
             grp == Rows(tmp, {i \in 1..Len(tmp) : tmp[i].price_key = sel_key.v})
         IN  IF \E i \in 1..Len(tmp) : tmp[i].floor.st = "raise" THEN NoSummary("raised")
             ELSE [status |-> "shown",
                   grp |-> grp,
                   no_floor |-> Cardinality({i \in 1..Len(grp) : grp[i].floor.st = "nan"}),
                   rows |-> corank_rows(grp)]

-----------------------------------------------------------------------------
(* Section 8: the nearest-value search                                     *)

CAND_CAP == 1000
TOP_N == 10

head(s, n) == IF Len(s) <= n THEN s ELSE SubSeq(s, 1, n)

NoSearch(status) == [status |-> status, cand |-> <<>>, rows |-> <<>>]

\* Twice the median of a non-empty sequence of values (the mean of the two
\* middle values of an even count can fall between two ticks).
median_x2(vals) ==
    LET s == StableSortBy(vals, [i \in 1..Len(vals) |-> << <<vals[i]>> >>])
        n == Len(s)
    IN  IF n % 2 = 1 THEN 2 * s[(n + 1) \div 2] ELSE s[n \div 2] + s[n \div 2 + 1]

\* The rows of df with a valuation, each with its floor.
pool_all(d) ==
    LET valid == Rows(d, {i \in 1..Len(d) : notna(d[i].price_clean)})
    IN  [i \in 1..Len(valid) |->
            [zone |-> valid[i].zone, dong |-> valid[i].dong, ho |-> valid[i].ho,
             price_clean |-> valid[i].price_clean.v,
             floor |-> extract_floor(valid[i].ho)]]

\* The exclusion by identifiers alone, whatever the valuation.
is_selected_triple(r, zone, dong, ho, sel_price) ==
    /\ r.zone = zone
    /\ r.dong = dong
    /\ r.ho = ho

is_selected_unit(r, zone, dong, ho, sel_price) ==
    /\ r.zone = zone
    /\ r.dong = dong
    /\ r.ho = ho
    /\ isclose(r.price_clean, sel_price)

\* pool without the selected unit, with the distance, nearest first.
candidates(d, zone, dong, ho, sel_price) ==
    LET all == pool_all(d)
        pool == Rows(all, {i \in 1..Len(all) : ~is_selected_unit(all[i], zone, dong, ho, sel_price)})
        dist == [i \in 1..Len(pool) |->
                    [zone |-> pool[i].zone, dong |-> pool[i].dong, ho |-> pool[i].ho,
                     price_clean |-> pool[i].price_clean, floor |-> pool[i].floor,
                     diff |-> Abs(pool[i].price_clean - sel_price)]]
    IN  head(StableSortBy(dist, [i \in 1..Len(dist) |->
                                    << <<dist[i].diff>>, <<-dist[i].price_clean>> >>]),
             CAND_CAP)

shown_diff(best_diff) == PyRound(best_diff, 2)

near_rows(cand) ==
    LET kept == with_floor(cand)
        names == SortedTuples({<<kept[i].zone, kept[i].dong>> : i \in 1..Len(kept)})
        rows == [k \in 1..Len(names) |->
                    LET g == Rows(kept, {i \in 1..Len(kept) :
                                            /\ kept[i].zone = names[k][1]
                                            /\ kept[i].dong = names[k][2]})
                        best_diff == MinOf({g[i].diff : i \in 1..Len(g)})
                    IN  [zone |-> names[k][1],
                         dong |-> dong_label(names[k][2]),
                         ranges |-> floor_ranges(g),
                         count |-> Len(g),
                         best_diff |-> best_diff,
                         shown_diff |-> shown_diff(best_diff),
                         median_price_x2 |-> median_x2([i \in 1..Len(g) |-> g[i].price_clean]),
                         z |-> first_number(names[k][1]),
                         d |-> first_number(names[k][2])]]
    IN  head(StableSortBy(rows, [k \in 1..Len(rows) |->
                                    << <<rows[k].shown_diff>>, <<-rows[k].count>>,
                                       <<rows[k].z>>, <<rows[k].d>> >>]),
             TOP_N)

near_result(cand, rows) ==
    [status |-> IF rows = <<>> THEN "no_result" ELSE "shown", cand |-> cand, rows |-> rows]

near_grouped(cand) == near_result(cand, near_rows(cand))

\* The search without its guard on the selected valuation.
near_search_unguarded(d, zone, dong, ho, sel_price) ==
    near_grouped(candidates(d, zone, dong, ho, sel_price.v))

near_search(d, zone, dong, ho, sel_price) ==
    IF isna(sel_price) THEN NoSearch("not_applicable")
    ELSE IF \E i \in 1..Len(d) : notna(d[i].price_clean) /\ extract_floor(d[i].ho).st = "raise"
    THEN NoSearch("raised")
    ELSE near_grouped(candidates(d, zone, dong, ho, sel_price.v))

-----------------------------------------------------------------------------
(* One run of the script, from the confirmed gate to the end               *)

Blank(stage) ==
    [stage |-> stage, zone |-> <<>>, dong |-> <<>>, ho |-> <<>>,
     total_units_all |-> 0, total_units_valid |-> 0,
     work |-> <<>>, bad_rows |-> <<>>,
     sel_price |-> NaN, sel_key |-> NaN, sel_rank |-> NaN, sel_tied |-> 0,
     message |-> "none", sel_detail |-> <<>>,
     corank |-> NoSummary("not_run"), near |-> NoSearch("not_run")]

rank_message(sel_price, sel_rank) ==
    IF isna(sel_price) THEN "excluded"
    ELSE IF notna(sel_rank) THEN "rank"
    ELSE "not_in_pool"

\* The record of a run that reached the sections.
run_record(zone, dong, ho, zdf, work, sel_price, sel_key, sel_rank, corank, near) ==
    [stage |-> IF corank.status = "raised" \/ near.status = "raised" THEN "raised" ELSE "done",
     zone |-> zone, dong |-> dong, ho |-> ho,
     total_units_all |-> Len(zdf), total_units_valid |-> Len(work),
     work |-> work, bad_rows |-> bad_rows(zdf),
     sel_price |-> sel_price, sel_key |-> sel_key,
     sel_rank |-> sel_rank, sel_tied |-> sel_tied_of(work, sel_key),
     message |-> rank_message(sel_price, sel_rank),
     sel_detail |-> Rows(work, {i \in 1..Len(work) : work[i].dong = dong /\ work[i].ho = ho}),
     corank |-> corank, near |-> near]

\* Section 8 runs unless section 7 raised.
section_8(d, zone, dong, ho, sel_price, corank) ==
    IF corank.status = "raised" THEN NoSearch("not_run")
    ELSE near_search(d, zone, dong, ho, sel_price)

sections_7_8(d, zone, dong, ho, zdf, work, sel_price, sel_key, sel_rank, corank) ==
    run_record(zone, dong, ho, zdf, work, sel_price, sel_key, sel_rank, corank,
               section_8(d, zone, dong, ho, sel_price, corank))

section_7(d, zone, dong, ho, zdf, work, sel_price, sel_key, sel_rank) ==
    sections_7_8(d, zone, dong, ho, zdf, work, sel_price, sel_key, sel_rank,
                 corank_summary(work, sel_key, sel_rank))

keyed(d, zone, dong, ho, zdf, work, sel_price, sel_key) ==
    section_7(d, zone, dong, ho, zdf, work, sel_price, sel_key, sel_rank_of(work, sel_key))

\* The selected unit: the first row of sel_df.
selected(d, zone, dong, ho, zdf, work, sel_price) ==
    keyed(d, zone, dong, ho, zdf, work, sel_price, sel_key_of(sel_price))

sel_df(zdf, dong, ho) == Rows(zdf, {i \in 1..Len(zdf) : zdf[i].dong = dong /\ zdf[i].ho = ho})

in_zone(d, zone, dong, ho, zdf) ==
    selected(d, zone, dong, ho, zdf, ranked(zdf), sel_df(zdf, dong, ho)[1].price_clean)

\* Sections 4 to 8 for the confirmed triple; sel_df is not empty.
compute(d, zone, dong, ho) == in_zone(d, zone, dong, ho, zone_df(d, zone))

\* The script below the select boxes: the gate, the lookup, the sections.
script(d, s) ==
    IF Len(d) = 0 THEN Blank("stop_no_zones")
    ELSE IF ~s.confirmed THEN Blank("stop_unconfirmed")
    ELSE LET zone == s.sel[1].zone
             dong == s.sel[1].dong
             ho == s.sel[1].ho
         IN  IF \E i \in 1..Len(d) : d[i].zone = zone /\ d[i].dong = dong /\ d[i].ho = ho
             THEN compute(d, zone, dong, ho)
             ELSE Blank("stop_no_selection")

-----------------------------------------------------------------------------
(* Interactions: each reruns the script                                    *)

NoChoice == [zone |-> Z_SENTINEL, dong |-> D_SENTINEL, ho |-> H_SENTINEL]
FreshSession == [confirmed |-> FALSE, sel |-> <<>>]

\* A rerun that computes for the select boxes' values in place of the stored
\* triple.
RerunOnWidgets(w, s) ==
    LET d == load_data(sheet)
        live == IF s.confirmed THEN [s EXCEPT !.sel = <<render_choices(d, w)>>] ELSE s
    IN  /\ df' = d
        /\ ui' = render_choices(d, w)
        /\ session' = s
        /\ out' = script(d, live)
        /\ UNCHANGED <<sheet, arg, res>>

\* A rerun with widget values w and session s: the data is loaded again.
Rerun(w, s) ==
    LET d == load_data(sheet)
    IN  /\ df' = d
        /\ ui' = render_choices(d, w)
        /\ session' = s
        /\ out' = script(d, s)
        /\ UNCHANGED <<sheet, arg, res>>

SelectZone(z) ==
    /\ z \in zone_options(df)
    /\ z # ui.zone
    /\ Rerun([ui EXCEPT !.zone = z], session)

SelectDong(x) ==
    /\ ui.zone # Z_SENTINEL
    /\ x \in dong_options(df, ui.zone)
    /\ x # ui.dong
    /\ Rerun([ui EXCEPT !.dong = x], session)

SelectHo(h) ==
    /\ ui.dong # D_SENTINEL
    /\ h \in ho_options(df, ui.zone, ui.dong)
    /\ h # ui.ho
    /\ Rerun([ui EXCEPT !.ho = h], session)

\* The confirm button: enabled for a valid pick; stores the triple and reruns.
Confirm ==
    /\ out.stage # "stop_no_zones"
    /\ valid_pick(ui)
    /\ LET choice == render_choices(load_data(sheet), ui)
       IN  IF valid_pick(choice)
           THEN Rerun(ui, [confirmed |-> TRUE, sel |-> <<choice>>])
           ELSE Rerun(ui, session)

\* The reset button, shown while confirmed: drops the four keys and reruns.
Reset ==
    /\ out.stage # "stop_no_zones"
    /\ session.confirmed
    /\ Rerun(ui, FreshSession)

\* The refresh button: st.rerun().
Refresh == Rerun(ui, session)

Next ==
    \/ \E z \in zone_options(df) : SelectZone(z)
    \/ \E x \in dong_options(df, ui.zone) : SelectDong(x)
    \/ \E h \in ho_options(df, ui.zone, ui.dong) : SelectHo(h)
    \/ Confirm
    \/ Reset
    \/ Refresh

Idle == [fn |-> "none", x |-> <<>>]

\* The first run of a new session on the data of source.
InitOn(source) ==
    /\ sheet = source
    /\ df = load_data(source)
    /\ ui = NoChoice
    /\ session = FreshSession
    /\ out = script(load_data(source), FreshSession)
    /\ arg = Idle
    /\ res = <<>>

-----------------------------------------------------------------------------
(* Data the model runs on                                                  *)

MaxRows == 3

Unit(z, d, h) == [zone |-> z, dong |-> d, ho |-> h]
Cell(p, a) == [public |-> p, appraisal |-> a]

SheetRows(units, cells) ==
    {[zone |-> u.zone, dong |-> u.dong, ho |-> u.ho,
      public |-> c.public, appraisal |-> c.appraisal] : u \in units, c \in cells}

Sheets(units, cells) == SeqsUpTo(SheetRows(units, cells), MaxRows)

NoValue == Cell(None, None)
\* 1.4 / 0.7 = 2.0
Public14 == Cell(Str(<<"1", ".", "4">>), None)
\* 2.0000005: round() gives 2.000001, Series.round 2.0
Tie2 == Cell(None, Str(<<"2", ".", "0", "0", "0", "0", "0", "0", "5">>))
\* 2.000001
Appr2000001 == Cell(None, Str(<<"2", ".", "0", "0", "0", "0", "0", "1">>))
\* 2.004
Appr2004 == Cell(None, Str(<<"2", ".", "0", "0", "4">>))

Zone1 == <<"1">>
Zone2 == <<"2">>
Dong10 == <<"1", "0">>
Dong20 == <<"2", "0">>
Ho701 == <<"7", "0", "1">>
Ho801 == <<"8", "0", "1">>
HoA == <<"A">>

\* Ranking: one unit in each of two zones, rows without a valuation, equal
\* and unequal keys, a valuation on a rounding tie.
RankUnits == {Unit(Zone1, Dong10, Ho701), Unit(Zone2, Dong10, Ho701)}
RankCells == {NoValue, Public14, Tie2, Appr2000001}

Init == \E source \in Sheets(RankUnits, RankCells) : InitOn(source)

Spec == Init /\ [][Next]_vars

\* Co-rank summary: one zone, two buildings, unit labels with and without a
\* floor, two rank keys.
CoRankUnits ==
    {Unit(Zone1, Dong10, Ho701), Unit(Zone1, Dong10, Ho801),
     Unit(Zone1, Dong10, HoA), Unit(Zone1, Dong20, HoA)}
CoRankCells == {Public14, Appr2000001}

InitCoRank == \E source \in Sheets(CoRankUnits, CoRankCells) : InitOn(source)

SpecCoRank == InitCoRank /\ [][Next]_vars

\* Nearest-value search: two zones, two buildings in the first, valuations at
\* distances within and beyond the exclusion tolerance.
NearUnits ==
    {Unit(Zone1, Dong10, Ho701), Unit(Zone1, Dong20, Ho701), Unit(Zone2, Dong10, Ho701)}
NearCells == {Public14, Tie2, Appr2004}

InitNear == \E source \in Sheets(NearUnits, NearCells) : InitOn(source)

SpecNear == InitNear /\ [][Next]_vars

\* Nearest-value search over unit labels with and without a floor: a unit to
\* select and a building with a floor-bearing and a floorless unit.
NearFloorUnits ==
    {Unit(Zone1, Dong10, Ho701), Unit(Zone1, Dong20, Ho701), Unit(Zone1, Dong20, HoA)}
NearFloorCells == {Public14, Appr2004}

InitNearFloor == \E source \in Sheets(NearFloorUnits, NearFloorCells) : InitOn(source)

SpecNearFloor == InitNearFloor /\ [][Next]_vars

\* The session over a source that changes between runs: the script reads the
\* source again on every run, so a row can appear or disappear under a
\* stored selection.
SessionUnits ==
    {Unit(Zone1, Dong10, Ho701), Unit(Zone1, Dong10, Ho801), Unit(Zone2, Dong10, Ho701)}
SessionCells == {Public14}
MaxSessionRows == 2
SessionRows == SheetRows(SessionUnits, SessionCells)
SessionSheets == SeqsUpTo(SessionRows, MaxSessionRows)

\* The source gets a row or loses its last one; nothing runs until the next
\* interaction.
AddRow(r) ==
    /\ Len(sheet) < MaxSessionRows
    /\ sheet' = Append(sheet, r)
    /\ UNCHANGED <<df, ui, session, out, arg, res>>

DropRow ==
    /\ Len(sheet) > 0
    /\ sheet' = SubSeq(sheet, 1, Len(sheet) - 1)
    /\ UNCHANGED <<df, ui, session, out, arg, res>>

SheetEdit == DropRow \/ \E r \in SessionRows : AddRow(r)

NextSession ==
    \/ Next
    \/ SheetEdit

InitSession == \E source \in SessionSheets : InitOn(source)

SpecSession == InitSession /\ [][NextSession]_vars

-----------------------------------------------------------------------------
(* The helper functions applied on their own                               *)

Apply(fn, value) ==
    /\ arg.fn = fn
    /\ res = <<>>
    /\ res' = <<value>>
    /\ UNCHANGED <<sheet, df, ui, session, out, arg>>

InitHelper(fn, inputs) ==
    /\ sheet = <<>>
    /\ df = <<>>
    /\ ui = NoChoice
    /\ session = FreshSession
    /\ out = Blank("stop_no_zones")
    /\ arg \in {[fn |-> fn, x |-> x] : x \in inputs}
    /\ res = <<>>

\* extract_floor on every short label.
MaxLabelLen == 4
LabelChars == {"0", "1", "7", "B", "sup2"}

InitFloor == InitHelper("extract_floor", SeqsUpTo(LabelChars, MaxLabelLen))
ApplyExtractFloor == Apply("extract_floor", extract_floor(arg.x))
SpecFloor == InitFloor /\ [][ApplyExtractFloor]_vars

\* The compression of the summaries: sorted(set(floors)), contiguous_ranges.
compress(floors) == contiguous_ranges(sorted_set(floors))

MaxFloor == 5
MaxFloors == 4

InitRanges == InitHelper("compress", SeqsUpTo(0..MaxFloor, MaxFloors))
ApplyCompress == Apply("compress", compress(arg.x))
SpecRanges == InitRanges /\ [][ApplyCompress]_vars

\* The derived valuation of one row, from every pair of short raw cells.
MaxPublicLen == 3
MaxAppraisalLen == 2
PriceChars == {"0", "1", ",", ".", "-", "eok", "x"}

Cells(n) == {None} \cup {Str(s) : s \in SeqsUpTo(PriceChars, n)}

InitPrice ==
    InitHelper("derived_valuation",
               {Cell(p, a) : p \in Cells(MaxPublicLen), a \in Cells(MaxAppraisalLen)})
ApplyDerivedValuation ==
    Apply("derived_valuation", derived_valuation(arg.x.public, arg.x.appraisal))
SpecPrice == InitPrice /\ [][ApplyDerivedValuation]_vars

-----------------------------------------------------------------------------
(* Properties                                                              *)

Applied(fn) == arg.fn = fn /\ res # <<>>

\* The integers an interval list covers.
Covered(ranges) == UNION {ranges[i][1]..ranges[i][2] : i \in 1..Len(ranges)}

\* C3: for every finite collection of floors, in any order and with any
\* duplicates, the compression (distinct values ascending, then
\* contiguous_ranges) returns closed intervals (s, e), ascending by start,
\* that cover exactly the input floors, each with s <= e, consecutive ones
\* with e_i < s_{i+1} - 1 (neither overlapping nor adjacent); the empty input
\* gives the empty list, one floor x gives (x, x), and {7,8,9,11,15,16}
\* gives (7,9), (11,11), (15,16).
C3_RangesExact ==
    Applied("compress") =>
        LET r == res[1]
        IN  /\ Covered(r) = Range(arg.x)
            /\ \A i \in 1..Len(r) : r[i][1] <= r[i][2]
            /\ \A i \in 1..(Len(r) - 1) : r[i][2] < r[i + 1][1] - 1
            /\ \A i \in 1..(Len(r) - 1) : r[i][1] < r[i + 1][1]
            /\ (arg.x = <<>> => r = <<>>)
            /\ (Cardinality(Range(arg.x)) = 1 => r = << <<arg.x[1], arg.x[1]>> >>)
            /\ compress(<<16, 7, 9, 8, 15, 11, 8>>) = << <<7, 9>>, <<11, 11>>, <<15, 16>> >>

\* C3 witness: an unordered input with a duplicate, compressed to a run and
\* a single floor.
C3_Witness ==
    /\ Applied("compress")
    /\ arg.x = <<4, 1, 2, 1>>
    /\ res[1] = << <<1, 2>>, <<4, 4>> >>

\* What the contract of extract_floor gives for a label: the characters
\* str.isdigit accepts are its digits; no digit, undefined; three or more,
\* the value of all but the last two; two, the first; one, that digit.
LabelDigits(ho) == SelectSeq(ho, isdigit)

\* C4: for every unit label extract_floor keeps only the digit characters
\* and returns undefined when there is none, the integer value of all digits
\* but the last two when there are three or more, of the first digit when
\* there are two, of the digit when there is one; it returns a value for
\* every label with at least one digit and never raises.
C4_FloorTotal ==
    Applied("extract_floor") =>
        LET digits == LabelDigits(arg.x)
            n == Len(digits)
            r == res[1]
        IN  /\ r.st # "raise"
            /\ (n = 0 <=> r.st = "nan")
            /\ (n >= 1 => r.st = "ok")

\* C4, the part the code keeps: a label whose digits are all ASCII digits
\* gets exactly the floor the contract describes.
C4_AsciiFloor ==
    (Applied("extract_floor") /\ \A i \in 1..Len(arg.x) : arg.x[i] \notin SuperDigits) =>
        LET digits == LabelDigits(arg.x)
            n == Len(digits)
            r == res[1]
        IN  /\ (n = 0 => r = FloorNaN)
            /\ (n >= 3 => r = Floor(DigitsValue(SubSeq(digits, 1, n - 2))))
            /\ (n = 2 => r = Floor(DigitVal(digits[1])))
            /\ (n = 1 => r = Floor(DigitVal(digits[1])))

\* C5: the derived valuation is the public value over the ratio whenever the
\* public value parses after noise stripping, the cleaned appraisal (not
\* divided) only when the public value is absent or unparsable, and undefined
\* only when neither parses.
C5_PublicCleaned ==
    Applied("derived_valuation") =>
        LET public == clean_price(arg.x.public)
            appraisal == clean_price(arg.x.appraisal)
        IN  res[1] = IF notna(public) THEN Num(DivideByRatio(public.v)) ELSE appraisal

\* C5, the part the code keeps: a public cell that parses as written is
\* divided by the ratio, and the appraisal is cleaned before it is used.
C5_PublicAsWritten ==
    Applied("derived_valuation") =>
        LET public == to_numeric(arg.x.public)
            appraisal == clean_price(arg.x.appraisal)
        IN  res[1] = IF notna(public) THEN Num(DivideByRatio(public.v)) ELSE appraisal

\* A run that reached the ranking sections.
Ran == out.stage \in {"done", "raised"}

ZoneRows == {i \in 1..Len(df) : df[i].zone = out.zone}
ZoneValid == {i \in ZoneRows : notna(df[i].price_clean)}
ZoneBad == {i \in ZoneRows : isna(df[i].price_clean)}

\* C1: within the selected zone, every record with a defined valuation gets
\* exactly one rank, one plus the number of the zone's records whose rounded
\* rank key is strictly greater: equal keys share a rank, the largest key has
\* rank 1, ranks after a tie are skipped (min method), every rank lies in
\* 1..N for the N ranked records, and the rank depends on the keys only, not
\* on the order of the rows.
C1_MinRank ==
    Ran =>
        LET w == out.work
            N == Cardinality(ZoneValid)
            greater(i) == {j \in 1..Len(w) : w[j].price_key > w[i].price_key}
        IN  /\ Len(w) = N
            /\ \A i \in 1..Len(w) :
                /\ w[i].rank = 1 + Cardinality(greater(i))
                /\ w[i].rank \in 1..N
                /\ (greater(i) = {} => w[i].rank = 1)
            /\ \A i, j \in 1..Len(w) :
                /\ (w[i].price_key = w[j].price_key => w[i].rank = w[j].rank)
                /\ (w[i].price_key > w[j].price_key => w[i].rank < w[j].rank)

\* C1 witness: three ranked records, the two largest keys tied at rank 1 and
\* the next record at rank 3.
C1_Witness ==
    /\ Ran
    /\ Len(out.work) = 3
    /\ [i \in 1..3 |-> out.work[i].rank] = <<1, 1, 3>>

\* The records of work whose rank key equals the selected unit's rank key.
KeyGroup == {i \in 1..Len(out.work) : out.work[i].price_key = out.sel_key.v}

\* C2: when the selected unit has a defined valuation, the records of its
\* zone whose rank key equals its rank key form a non-empty group that holds
\* the selected unit, all with one rank, which is the reported rank; the
\* reported tied count is the size of the group and every member carries it.
C2_KeyGroup ==
    (Ran /\ notna(out.sel_price)) =>
        /\ notna(out.sel_key)
        /\ KeyGroup # {}
        /\ \E i \in KeyGroup :
            /\ out.work[i].dong = out.dong
            /\ out.work[i].ho = out.ho
            /\ out.work[i].price_clean = out.sel_price.v
        /\ notna(out.sel_rank)
        /\ \A i \in KeyGroup : out.work[i].rank = out.sel_rank.v
        /\ out.sel_tied = Cardinality(KeyGroup)
        /\ \A i \in KeyGroup : out.work[i].tied = Cardinality(KeyGroup)

\* C2, the part the code keeps: when a rank is reported, the records with the
\* selected key all carry it, and the tied count is their number.
C2_ReportedGroup ==
    (Ran /\ notna(out.sel_rank)) =>
        /\ KeyGroup # {}
        /\ \A i \in KeyGroup : out.work[i].rank = out.sel_rank.v
        /\ out.sel_tied = Cardinality(KeyGroup)
        /\ \A i \in KeyGroup : out.work[i].tied = Cardinality(KeyGroup)

SameRows(s, r) ==
    Cardinality({k \in 1..Len(s) : /\ s[k].zone = r.zone
                                   /\ s[k].dong = r.dong
                                   /\ s[k].ho = r.ho
                                   /\ s[k].price_clean = r.price_clean})

\* C9: the records of the selected zone split into the ranked pool (defined
\* valuation) and the excluded list (undefined valuation): every record of
\* the zone is in exactly one of them, the two sizes add up to the zone's
\* record count, neither holds a record of another zone, and no record
\* without a valuation is ranked.
C9_Partition ==
    Ran =>
        /\ out.total_units_all = Cardinality(ZoneRows)
        /\ out.total_units_valid = Cardinality(ZoneValid)
        /\ Len(out.work) = Cardinality(ZoneValid)
        /\ Len(out.bad_rows) = Cardinality(ZoneBad)
        /\ Len(out.work) + Len(out.bad_rows) = Cardinality(ZoneRows)
        /\ \A k \in 1..Len(out.work) : out.work[k].zone = out.zone
        /\ \A k \in 1..Len(out.bad_rows) :
            out.bad_rows[k].zone = out.zone /\ isna(out.bad_rows[k].price_clean)
        /\ \A i \in ZoneValid :
            LET r == [zone |-> df[i].zone, dong |-> df[i].dong, ho |-> df[i].ho,
                      price_clean |-> df[i].price_clean.v]
            IN  SameRows(out.work, r)
                    = Cardinality({j \in ZoneValid : /\ df[j].dong = r.dong
                                                     /\ df[j].ho = r.ho
                                                     /\ df[j].price_clean.v = r.price_clean})
        /\ \A i \in ZoneBad :
            SameRows(out.bad_rows, df[i])
                = Cardinality({j \in ZoneBad : df[j].dong = df[i].dong /\ df[j].ho = df[i].ho})

\* C9 witness: the zone holds a ranked record and an excluded record, and
\* the table a record of another zone.
C9_Witness ==
    /\ Ran
    /\ out.work # <<>>
    /\ out.bad_rows # <<>>
    /\ \E i \in 1..Len(df) : df[i].zone # out.zone

\* A unit label with no digit has no floor.
NoFloor(ho) == LabelDigits(ho) = <<>>

\* C10: in a co-rank summary, the units counted over the building rows plus
\* the count of members without a floor is the size of the co-rank group
\* (the tied count): a member with a floor is counted in the row of its
\* building and no other, a member without a floor in no row, and a building
\* whose members all lack a floor has no row.
C10_CoRankCounts ==
    out.corank.status = "shown" =>
        LET c == out.corank
            members == {i \in 1..Len(out.work) : out.work[i].price_key = out.sel_key.v}
            counted(b) == {i \in members : /\ dong_label(out.work[i].dong) = b
                                           /\ ~NoFloor(out.work[i].ho)}
        IN  /\ Len(c.grp) = Cardinality(members)
            /\ Len(c.grp) = out.sel_tied
            /\ c.no_floor = Cardinality({i \in members : NoFloor(out.work[i].ho)})
            /\ SumSeq([k \in 1..Len(c.rows) |-> c.rows[k].count]) + c.no_floor = Len(c.grp)
            /\ \A k \in 1..Len(c.rows) :
                /\ c.rows[k].count = Cardinality(counted(c.rows[k].dong))
                /\ c.rows[k].count >= 1
            /\ \A k, l \in 1..Len(c.rows) : c.rows[k].dong = c.rows[l].dong => k = l
            /\ \A i \in members :
                ~NoFloor(out.work[i].ho) =>
                    \E k \in 1..Len(c.rows) : c.rows[k].dong = dong_label(out.work[i].dong)

\* C10 witness: a group of three, two units with a floor in one building and
\* a unit without a floor in a building that gets no row.
C10_Witness ==
    /\ out.corank.status = "shown"
    /\ Len(out.corank.grp) = 3
    /\ out.corank.no_floor = 1
    /\ Len(out.corank.rows) = 1
    /\ out.corank.rows[1].count = 2
    /\ \E i \in 1..Len(out.corank.grp) :
        dong_label(out.corank.grp[i].dong) # out.corank.rows[1].dong

\* C6: the rows of a nearest-value result are in non-decreasing order of
\* their group's minimum absolute difference from the selected valuation,
\* and there are at most TOP_N of them.
C6_NearestFirst ==
    out.near.status = "shown" =>
        LET rows == out.near.rows
        IN  /\ Len(rows) <= TOP_N
            /\ \A k \in 1..(Len(rows) - 1) : rows[k].best_diff <= rows[k + 1].best_diff

\* C6, the part the code keeps: the rows are in non-decreasing order of the
\* difference rounded to two decimals, then by count descending, then by the
\* zone and building numbers.
C6_ShownOrder ==
    out.near.status = "shown" =>
        LET rows == out.near.rows
            key(r) == <<r.shown_diff, -r.count, r.z, r.d>>
        IN  /\ Len(rows) <= TOP_N
            /\ \A k \in 1..(Len(rows) - 1) : ~LexLess(key(rows[k + 1]), key(rows[k]))

\* The selected unit's own record: the selected identifiers and a valuation
\* within 1e-6 of the selected valuation.
OwnRecord(i) ==
    /\ df[i].zone = out.zone
    /\ df[i].dong = out.dong
    /\ df[i].ho = out.ho
    /\ Abs(df[i].price_clean.v - out.sel_price.v) <= TickScale \div Pow10(6)

\* C7: the candidates of the nearest-value search are all records of the
\* table, of any zone, with a defined valuation, except those with the
\* selected zone, building and unit label whose valuation is within 1e-6 of
\* the selected one; a record with the same identifiers and a valuation
\* further away, or with the same valuation in another unit, stays; no
\* returned group counts an excluded record.
C7_Candidates ==
    out.near.status \in {"shown", "no_result"} =>
        LET cand == out.near.cand
            valid == {i \in 1..Len(df) : notna(df[i].price_clean)}
            row(i) == [zone |-> df[i].zone, dong |-> df[i].dong, ho |-> df[i].ho,
                       price_clean |-> df[i].price_clean.v]
            kept == {i \in valid : ~OwnRecord(i)}
        IN  /\ Len(cand) = Cardinality(kept)
            /\ \A i \in kept :
                SameRows(cand, row(i)) = Cardinality({j \in kept : row(j) = row(i)})
            /\ \A i \in valid \ kept : SameRows(cand, row(i)) = 0
            /\ \A k \in 1..Len(cand) :
                cand[k].diff = Abs(cand[k].price_clean - out.sel_price.v)
            /\ \A k \in 1..Len(out.near.rows) :
                out.near.rows[k].count
                    = Cardinality({i \in 1..Len(cand) :
                                      /\ cand[i].zone = out.near.rows[k].zone
                                      /\ dong_label(cand[i].dong) = out.near.rows[k].dong
                                      /\ ~NoFloor(cand[i].ho)})

\* C7 witness: a record with the selected identifiers and a valuation beyond
\* the tolerance is a candidate, and so is a record of another zone with
\* exactly the selected valuation.
C7_Witness ==
    /\ out.near.status = "shown"
    /\ \E k \in 1..Len(out.near.cand) :
        /\ out.near.cand[k].zone = out.zone
        /\ out.near.cand[k].dong = out.dong
        /\ out.near.cand[k].ho = out.ho
    /\ \E k \in 1..Len(out.near.cand) :
        /\ out.near.cand[k].zone # out.zone
        /\ out.near.cand[k].price_clean = out.sel_price.v

\* The candidates of the group of a returned row, and those with a floor.
GroupOf(r) ==
    {i \in 1..Len(out.near.cand) : /\ out.near.cand[i].zone = r.zone
                                   /\ dong_label(out.near.cand[i].dong) = r.dong}

FloorGroupOf(r) == {i \in GroupOf(r) : ~NoFloor(out.near.cand[i].ho)}

\* Twice the median of the valuations of the candidates I.
MedianX2(I) ==
    LET below(i) == Cardinality({j \in I : out.near.cand[j].price_clean
                                               < out.near.cand[i].price_clean})
        upto(i) == Cardinality({j \in I : out.near.cand[j].price_clean
                                              <= out.near.cand[i].price_clean})
        n == Cardinality(I)
        at(k) == out.near.cand[CHOOSE i \in I : below(i) < k /\ k <= upto(i)].price_clean
    IN  IF n % 2 = 1 THEN 2 * at((n + 1) \div 2) ELSE at(n \div 2) + at(n \div 2 + 1)

\* The count, least distance and median a row reports are those of the
\* candidates I.
Summarises(r, I) ==
    /\ I # {}
    /\ r.count = Cardinality(I)
    /\ r.best_diff = MinOf({out.near.cand[i].diff : i \in I})
    /\ r.median_price_x2 = MedianX2(I)

\* C11: for every returned (zone, building) group of the nearest-value
\* search, the unit count is the number of candidate records of the group,
\* best_diff the least distance to the selected valuation over them and the
\* representative value their median, taken over all candidate records of
\* the group, with or without a floor in the unit label.
C11_AllGroupRecords ==
    out.near.status = "shown" =>
        \A k \in 1..Len(out.near.rows) :
            Summarises(out.near.rows[k], GroupOf(out.near.rows[k]))

\* C11, the part the code keeps: count, best_diff and median are those of the
\* group's candidate records that have a floor.
C11_FloorRecords ==
    out.near.status = "shown" =>
        \A k \in 1..Len(out.near.rows) :
            Summarises(out.near.rows[k], FloorGroupOf(out.near.rows[k]))

\* The triple stored at the confirm press.
Stored == session.sel[1]

InTable(d, w) ==
    \E i \in 1..Len(d) : d[i].zone = w.zone /\ d[i].dong = w.dong /\ d[i].ho = w.ho

\* What every state of a session shows: results exist only under the
\* confirmed flag and are those of the stored triple on the loaded table; an
\* unconfirmed session stores no triple; a stored triple is a valid pick; a
\* stored triple that the loaded table lacks gets no rank.
SessionGate ==
    /\ (Ran => session.confirmed)
    /\ (~session.confirmed => session.sel = <<>> /\ isna(out.sel_rank) /\ out.work = <<>>)
    /\ (session.confirmed =>
            /\ valid_pick(Stored)
            /\ (Ran => /\ out.zone = Stored.zone
                       /\ out.dong = Stored.dong
                       /\ out.ho = Stored.ho
                       /\ out = compute(df, Stored.zone, Stored.dong, Stored.ho))
            /\ (InTable(df, Stored) => Ran)
            /\ (~InTable(df, Stored) => ~Ran /\ isna(out.sel_rank) /\ out.work = <<>>))

\* What every step of a session does to the stored triple: a select box
\* change, a refresh or a change of the source leaves the session as it is;
\* the session changes only by a reset, which clears it, or by a confirm,
\* which stores the select boxes' values, all three of them chosen.
SessionStep ==
    /\ ((\/ \E z \in zone_options(df) : SelectZone(z)
         \/ \E x \in dong_options(df, ui.zone) : SelectDong(x)
         \/ \E h \in ho_options(df, ui.zone, ui.dong) : SelectHo(h)
         \/ Refresh
         \/ SheetEdit) => session' = session)
    /\ (Reset => session' = FreshSession /\ ~Ran')
    /\ (session' # session =>
            \/ session.confirmed /\ session' = FreshSession
            \/ /\ valid_pick(ui')
               /\ session' = [confirmed |-> TRUE, sel |-> <<ui'>>])

=============================================================================
